---- MODULE Spec2Model ----
(***************************************************************************)
(* Session based authentication of the issue tracker backend: the login    *)
(* handler LoginUsingSession, the handler ListUsers, the interceptor       *)
(* AuthInterceptor.preHandle and its registration in                       *)
(* WebConfig.addInterceptors (src/unnamed/part_007, src/Authentication.md).*)
(*                                                                         *)
(* A client is a browser holding at most one session cookie.  The servlet  *)
(* container keeps the sessions; the only attribute the code uses is       *)
(* "username".  Java null is the value Null.  An Optional<User> is a set   *)
(* with at most one element.                                               *)
(***************************************************************************)
EXTENDS Integers, Sequences, FiniteSets, TLC

\* ------------------------------------------------------------------ bounds
NumClients == 2

\* ------------------------------------------------------------ value spaces
Null == "null"
Clients == 1..NumClients
SessionIds == 1..NumClients
NoCookie == 0
Emails == {"a@x", "b@x"}
Passwords == {"p", "q"}
Names == {"alice", "bob"}

\* request paths, as lists of segments
LoginPath == <<"session", "login">>
UsersPath == <<"users">>
UserByIdPath == <<"users", "1">>
RegisterPath == <<"register">>
IssuesPath == <<"issues">>
IssueByIdPath == <<"issues", "1">>

\* literal response texts and status codes of the source
OK == 200
UNAUTHORIZED == 401
INTERNAL_SERVER_ERROR == 500
Unspecified == 0
LoginSuccessful == "Login Successful"
InvalidCredentials == "Invalid credentials"
UnauthorisedText == "UNAUTHORISED"
InterceptorText == "UNAUTHORIZED from INTERCEPTOR"
UserListBody == "users"
ErrorBody == "error"
NoBody == "none"

\* the @RequestBody User of a login request: every field may be missing
LoginBodies == [email : Emails \cup {Null},
                password : Passwords \cup {Null},
                name : Names \cup {Null}]
NoUser == [email |-> Null, password |-> Null, name |-> Null]

VARIABLES
    users,      \* stored user records
    sessions,   \* the container's session store: id -> [created, username]
    cookie,     \* the session cookie each client holds (NoCookie: none)
    resp,       \* the last request and the response it got
    loggedIn    \* history: the clients whose login has returned 200

vars == <<users, sessions, cookie, resp, loggedIn>>

NoSession == [created |-> FALSE, username |-> Null]

\* ------------------------------------------------------- servlet container
\* request.getSession(false): the id of the request's session, 0 when none
getSessionFalse(c) ==
    IF cookie[c] # NoCookie /\ sessions[cookie[c]].created THEN cookie[c] ELSE 0

\* the id request.getSession() returns: the existing one or a fresh one.
\* Ids are opaque and unique; the fresh id handed to client c is written c.
getSession(c) ==
    IF getSessionFalse(c) # 0 THEN getSessionFalse(c) ELSE c

\* variant: request.getSession(false) in place of request.getSession()
storeAfterGetSessionFalse(c) == sessions

\* the session store after request.getSession()
storeAfterGetSession(c) ==
    IF getSessionFalse(c) # 0 THEN sessions
    ELSE [sessions EXCEPT ![getSession(c)] = [created |-> TRUE, username |-> Null]]

\* session.getAttribute("username")
getAttribute(store, s) == store[s].username

\* variant: the attribute kept in application scope, shared by all sessions
setAttributeAllSessions(store, s, value) ==
    [t \in DOMAIN store |-> [store[t] EXCEPT !.username = value]]

\* session.setAttribute("username", value): a null value removes the attribute
setAttribute(store, s, value) ==
    IF value = Null THEN [store EXCEPT ![s].username = Null]
    ELSE [store EXCEPT ![s].username = value]

\* ---------------------------------------------------------- user service
\* userService.FindByEmail(email): an Optional<User>
FindByEmail(email) == {u \in users : u.email = email}

\* ------------------------------------------------------ interceptor setup
\* one path pattern against one path; "**" matches any remaining segments
RECURSIVE matchPattern(_, _)
matchPattern(pattern, path) ==
    IF pattern = <<>> THEN path = <<>>
    ELSE IF Head(pattern) = "**" THEN TRUE
    ELSE /\ path # <<>>
         /\ Head(path) = Head(pattern)
         /\ matchPattern(Tail(pattern), Tail(path))

\* variant: the pattern "/**" registered in place of the /users patterns
addPathPatternsAll == {<<"**">>}

addPathPatterns == {<<"users">>, <<"users", "**">>}
excludePathPatterns == {<<"session", "login">>}

\* variant: the interceptor registered for every path, with no exclusion
addInterceptorsEverywhere(path) == matchPattern(<<"**">>, path)

\* variant: only the paths below /users registered, /users itself left out
addInterceptorsSubpathsOnly(path) ==
    /\ \A p \in excludePathPatterns : ~matchPattern(p, path)
    /\ Len(path) >= 2
    /\ Head(path) = "users"

\* WebConfig.addInterceptors: the paths authInterceptor is applied to
addInterceptors(path) ==
    /\ \A p \in excludePathPatterns : ~matchPattern(p, path)
    /\ \E p \in addPathPatterns : matchPattern(p, path)

\* ------------------------------------------------------------ interceptor
\* variant: the session == null check left out
preHandleNoSessionCheck(c) ==
    LET session == getSessionFalse(c) IN
    IF session = 0 THEN TRUE
    ELSE getAttribute(sessions, session) # Null

\* variant: the usernameData == null check left out
preHandleSessionOnly(c) == getSessionFalse(c) # 0

\* AuthInterceptor.preHandle: TRUE lets the request through
preHandle(c) ==
    LET session == getSessionFalse(c) IN
    IF session = 0 THEN FALSE
    ELSE LET usernameData == getAttribute(sessions, session) IN
         IF usernameData = Null THEN FALSE
         ELSE TRUE

Response(c, path, user, handler, status, body) ==
    [client |-> c, path |-> path, user |-> user,
     handler |-> handler, status |-> status, body |-> body]

\* variant: the second rejection written with the handler's message
RejectedOtherText(c, path, user) ==
    /\ resp' = Response(c, path, user, "AuthInterceptor", UNAUTHORIZED,
                        IF getSessionFalse(c) = 0 THEN InterceptorText ELSE UnauthorisedText)
    /\ UNCHANGED <<users, sessions, cookie, loggedIn>>

\* variant: preHandle calling request.getSession() and so creating a session
RejectedCreatesSession(c, path, user) ==
    /\ resp' = Response(c, path, user, "AuthInterceptor", UNAUTHORIZED, InterceptorText)
    /\ sessions' = storeAfterGetSession(c)
    /\ cookie' = [cookie EXCEPT ![c] = getSession(c)]
    /\ UNCHANGED <<users, loggedIn>>

\* what preHandle writes when it returns false
Rejected(c, path, user) ==
    /\ resp' = Response(c, path, user, "AuthInterceptor", UNAUTHORIZED, InterceptorText)
    /\ UNCHANGED <<users, sessions, cookie, loggedIn>>

\* ------------------------------------------------ IssueTracker component
\* (src/issue-tracker-frontend/src/components/IssueDetails.js, lines 113-168,
\* and deleteIssue of the issue service.)  An issue is written as its id.
NumIssues == 3
MaxClicks == 3
IssueIds == 1..NumIssues

VARIABLES
    server,      \* the ids of the issues the backend stores
    issues,      \* the component's state: the displayed list
    fetchState,  \* the mount effect's GET /issues: "pending", "done", "failed"
    calls,       \* the handleDelete calls that have not returned yet
    clicks,      \* number of Delete clicks so far
    clicked      \* history: the ids whose Delete button was clicked

trackerVars == <<server, issues, fetchState, calls, clicks, clicked>>
allVars == <<users, sessions, cookie, resp, loggedIn,
             server, issues, fetchState, calls, clicks, clicked>>

\* useState([]) and the mount effect's fetch just issued
InitTracker ==
    /\ server = IssueIds
    /\ issues = <<>>
    /\ fetchState = "pending"
    /\ calls = {}
    /\ clicks = 0
    /\ clicked = {}

\* --------------------------------------------------- AddIssue component
\* (src/issue-tracker-frontend/src/components/AddIssue.js)
\* A JavaScript value held in a user field: an object with one property
\* ({id: val} in AddIssue, {name: val} in IssueDetails), a string, or undefined.
MaxSubmits == 2
TypedValues == {"a", "b"}
Undefined == "undefined"
Obj(v) == [type |-> "object", val |-> v]
Str(v) == [type |-> "string", val |-> v]
Undef == [type |-> "undefined", val |-> Undefined]
FieldNames == {"title", "description", "status", "user"}

VARIABLES
    addFormData,  \* AddIssue's formData state
    addPage,      \* the route shown: "form" (/add-issue) or "list" (/)
    addPending,   \* POST /issues requests that have not settled
    addSubmits,   \* number of submits so far
    addLast,      \* history: how the last settled POST ended
    addEvent      \* history: the last input change event, [name, value]

addVars == <<addFormData, addPage, addPending, addSubmits, addLast, addEvent>>
NoEvent == [name |-> "none", value |-> ""]

\* useState({title: '', description: '', status: '', user: {id: ''}})
InitAddIssue ==
    /\ addFormData = [title |-> "", description |-> "", status |-> "", user |-> Obj("")]
    /\ addPage = "form"
    /\ addPending = 0
    /\ addSubmits = 0
    /\ addLast = "none"
    /\ addEvent = NoEvent

\* ----------------------------------------------- IssueDetails component
\* (src/issue-tracker-frontend/src/components/IssueDetails.js, lines 1-112)
NumDetails == 2
MaxRoutes == 2
MaxInputs == 2
MaxPuts == 1
DetailIds == 1..NumDetails

Fields(t, d, st, u) == [title |-> t, description |-> d, status |-> st, user |-> u]
\* the JSON object the backend holds for issue i
IssueJson(i, f) ==
    [kind |-> "issue", id |-> i, title |-> f.title, description |-> f.description,
     status |-> f.status, user |-> f.user]
\* useState(null)
NullIssue ==
    [kind |-> "null", id |-> 0, title |-> Undefined, description |-> Undefined,
     status |-> Undefined, user |-> Undef]
\* the JSON body of an error response: none of the issue's properties
ErrorJson ==
    [kind |-> "error", id |-> 0, title |-> Undefined, description |-> Undefined,
     status |-> Undefined, user |-> Undef]
FieldsOf(data) == Fields(data.title, data.description, data.status, data.user)

VARIABLES
    detServer,    \* the backend's issues: id -> fields
    detId,        \* useParams().id
    detIssue,     \* issue state
    detIsEditing, \* isEditing state
    detFormData,  \* formData state
    detFetches,   \* GET /issues/{id} requests in flight: [n, id]
    detPuts,      \* PUT /issues/{id} requests in flight: [n, id, body]
    detRoutes,    \* number of route changes so far
    detSubmits,   \* number of submits so far
    detInputs,    \* number of input changes so far
    detEvent,     \* history: the last input change event
    detLastPut,   \* history: how the last settled PUT ended
    detGetFailed  \* history: some GET did not end in a 2xx JSON response

detVars == <<detServer, detId, detIssue, detIsEditing, detFormData, detFetches,
             detPuts, detRoutes, detSubmits, detInputs, detEvent, detLastPut,
             detGetFailed>>

\* the component has just mounted on /issue-details/1: the effect has sent
\* the first GET
InitDetails ==
    /\ detServer = [i \in DetailIds |->
                       Fields(IF i = 1 THEN "a" ELSE "b", "d", "open", Obj("u"))]
    /\ detId = 1
    /\ detIssue = NullIssue
    /\ detIsEditing = FALSE
    /\ detFormData = Fields("", "", "", Obj(""))
    /\ detFetches = {[n |-> 0, id |-> 1]}
    /\ detPuts = {}
    /\ detRoutes = 0
    /\ detSubmits = 0
    /\ detInputs = 0
    /\ detEvent = NoEvent
    /\ detLastPut = "none"
    /\ detGetFailed = FALSE

\* ------------------------------------------ Redux issues slice and its user
\* (src/unnamed/part_001: issuesSlice.js and the Redux IssueTracker.js)
MaxMounts == 2
MaxItems == 3
ItemStatuses == {"open", "closed"}
Item(i, st) == [id |-> i, status |-> st]
\* what getIssues() resolves to
Payload == <<Item(1, "open"), Item(2, "open")>>

VARIABLES
    rdxStatus,     \* state.issues.status
    rdxItems,      \* state.issues.items
    rdxError,      \* state.issues.error
    rdxMounted,    \* IssueTracker is mounted
    rdxEffect,     \* the status seen by the render whose effect has not run yet
    rdxInFlight,   \* fetchIssues thunks that have not settled
    rdxMounts,     \* number of mounts so far
    rdxDispatched  \* history: number of fetchIssues dispatches

rdxVars == <<rdxStatus, rdxItems, rdxError, rdxMounted, rdxEffect, rdxInFlight,
             rdxMounts, rdxDispatched>>

\* initialState of the slice; nothing rendered yet
InitRedux ==
    /\ rdxStatus = "idle"
    /\ rdxItems = <<>>
    /\ rdxError = Null
    /\ rdxMounted = FALSE
    /\ rdxEffect = "none"
    /\ rdxInFlight = 0
    /\ rdxMounts = 0
    /\ rdxDispatched = 0

\* ------------------------------------------------------ optimistic update
\* (src/issue-tracker-frontend/docs/React-8-API-Integration.md, lines 776-808)
NumOptIssues == 2
MaxChanges == 3
OptIds == 1..NumOptIssues
NoAttempt == [count |-> 0, before |-> "open", new |-> "open", outcome |-> "none"]

VARIABLES
    optIssues,    \* issues state, as id -> status
    optCalls,     \* handleStatusChange calls awaiting updateIssue
    optChanges,   \* number of status changes so far
    optAttempts   \* history: per issue, its attempts and the last one

optVars == <<optIssues, optCalls, optChanges, optAttempts>>

InitOptimistic ==
    /\ optIssues = [i \in OptIds |-> "open"]
    /\ optCalls = {}
    /\ optChanges = 0
    /\ optAttempts = [i \in OptIds |-> NoAttempt]

\* the state of the frontend components other than IssueTracker
uiVars == <<addVars, detVars, rdxVars, optVars>>
InitUI == InitAddIssue /\ InitDetails /\ InitRedux /\ InitOptimistic
\* what the AddIssue component leaves alone
notAddVars == <<allVars, detVars, rdxVars, optVars>>
\* what the IssueDetails component leaves alone
notDetVars == <<allVars, addVars, rdxVars, optVars>>
\* what the Redux slice and its component leave alone
notRdxVars == <<allVars, addVars, detVars, optVars>>
\* what the optimistic update leaves alone
notOptVars == <<allVars, addVars, detVars, rdxVars>>

Init ==
    /\ InitTracker
    /\ InitUI
    /\ users = {}
    /\ sessions = [s \in SessionIds |-> NoSession]
    /\ cookie = [c \in Clients |-> NoCookie]
    /\ resp = Response(0, <<>>, NoUser, "none", Unspecified, NoBody)
    /\ loggedIn = {}

\* an uncaught exception in a handler: the framework answers 500
Throws(c, path, user, handler) ==
    /\ resp' = Response(c, path, user, handler, INTERNAL_SERVER_ERROR, ErrorBody)
    /\ UNCHANGED <<users, sessions, cookie, loggedIn>>

\* ---------------------------------------------------------------- handlers
\* variant: the password compared with itself
passwordEqualsSelf(user, dbUser) == user.password = user.password

\* user.password.equals(dbUser.password), for a non-null user.password
passwordEquals(user, dbUser) == user.password = dbUser.password

\* variant: the session attribute set before the password is compared
LoginUsingSessionSetsFirst(c, user) ==
    LET found == FindByEmail(user.email) IN
    IF found = {} THEN Throws(c, LoginPath, user, "LoginUsingSession")
    ELSE
        LET dbUser == CHOOSE u \in found : TRUE IN
        IF user.password = Null THEN Throws(c, LoginPath, user, "LoginUsingSession")
        ELSE
            /\ sessions' = setAttribute(storeAfterGetSession(c), getSession(c), user.name)
            /\ cookie' = [cookie EXCEPT ![c] = getSession(c)]
            /\ UNCHANGED users
            /\ IF passwordEquals(user, dbUser)
               THEN /\ resp' = Response(c, LoginPath, user, "LoginUsingSession",
                                        OK, LoginSuccessful)
                    /\ loggedIn' = loggedIn \cup {c}
               ELSE /\ resp' = Response(c, LoginPath, user, "LoginUsingSession",
                                        UNAUTHORIZED, InvalidCredentials)
                    /\ UNCHANGED loggedIn

\* variant: request.getSession() called before the password is compared
LoginUsingSessionSessionFirst(c, user) ==
    LET found == FindByEmail(user.email) IN
    IF found = {} THEN Throws(c, LoginPath, user, "LoginUsingSession")
    ELSE
        LET dbUser == CHOOSE u \in found : TRUE IN
        IF user.password = Null THEN Throws(c, LoginPath, user, "LoginUsingSession")
        ELSE
            /\ cookie' = [cookie EXCEPT ![c] = getSession(c)]
            /\ UNCHANGED users
            /\ IF passwordEquals(user, dbUser)
               THEN /\ sessions' = setAttribute(storeAfterGetSession(c),
                                                getSession(c), user.name)
                    /\ resp' = Response(c, LoginPath, user, "LoginUsingSession",
                                        OK, LoginSuccessful)
                    /\ loggedIn' = loggedIn \cup {c}
               ELSE /\ sessions' = storeAfterGetSession(c)
                    /\ resp' = Response(c, LoginPath, user, "LoginUsingSession",
                                        UNAUTHORIZED, InvalidCredentials)
                    /\ UNCHANGED loggedIn

\* variant: the passwords compared null-safely, Objects.equals(a, b)
LoginUsingSessionNullSafe(c, user) ==
    LET found == FindByEmail(user.email) IN
    IF found = {} THEN Throws(c, LoginPath, user, "LoginUsingSession")
    ELSE
        LET dbUser == CHOOSE u \in found : TRUE IN
        IF passwordEquals(user, dbUser) THEN
            /\ sessions' = setAttribute(storeAfterGetSession(c), getSession(c), user.name)
            /\ cookie' = [cookie EXCEPT ![c] = getSession(c)]
            /\ resp' = Response(c, LoginPath, user, "LoginUsingSession", OK, LoginSuccessful)
            /\ loggedIn' = loggedIn \cup {c}
            /\ UNCHANGED users
        ELSE
            /\ resp' = Response(c, LoginPath, user, "LoginUsingSession",
                                UNAUTHORIZED, InvalidCredentials)
            /\ UNCHANGED <<users, sessions, cookie, loggedIn>>

\* POST /session/login
LoginUsingSession(c, user) ==
    LET found == FindByEmail(user.email) IN
    IF found = {} THEN
        \* Optional.get() on an empty Optional: NoSuchElementException
        Throws(c, LoginPath, user, "LoginUsingSession")
    ELSE
        LET dbUser == CHOOSE u \in found : TRUE IN
        IF user.password = Null THEN
            \* user.password.equals(...) on null: NullPointerException
            Throws(c, LoginPath, user, "LoginUsingSession")
        ELSE IF passwordEquals(user, dbUser) THEN
            /\ sessions' = setAttribute(storeAfterGetSession(c), getSession(c), user.name)
            /\ cookie' = [cookie EXCEPT ![c] = getSession(c)]
            /\ resp' = Response(c, LoginPath, user, "LoginUsingSession", OK, LoginSuccessful)
            /\ loggedIn' = loggedIn \cup {c}
            /\ UNCHANGED users
        ELSE
            /\ resp' = Response(c, LoginPath, user, "LoginUsingSession",
                                UNAUTHORIZED, InvalidCredentials)
            /\ UNCHANGED <<users, sessions, cookie, loggedIn>>

\* GET /users
ListUsers(c) ==
    LET store == storeAfterGetSession(c)
        usernameData == getAttribute(store, getSession(c)) IN
    /\ sessions' = store
    /\ cookie' = [cookie EXCEPT ![c] = getSession(c)]
    /\ resp' = IF usernameData = Null
               THEN Response(c, UsersPath, NoUser, "ListUsers", UNAUTHORIZED, UnauthorisedText)
               ELSE Response(c, UsersPath, NoUser, "ListUsers", OK, UserListBody)
    /\ UNCHANGED <<users, loggedIn>>

\* a handler whose code is outside the authentication sample
OtherHandler(c, path) ==
    /\ resp' = Response(c, path, NoUser, "other", Unspecified, NoBody)
    /\ UNCHANGED <<users, sessions, cookie, loggedIn>>

\* POST /register: stores a new user record
NameOf(email) == IF email = "a@x" THEN "alice" ELSE "bob"
RegisterBodies == {[email |-> e, name |-> NameOf(e), password |-> pw] :
                      e \in Emails, pw \in Passwords \cup {Null}}

Register(c, user) ==
    /\ FindByEmail(user.email) = {}
    /\ users' = users \cup {user}
    /\ resp' = Response(c, RegisterPath, NoUser, "Register", Unspecified, NoBody)
    /\ UNCHANGED <<sessions, cookie, loggedIn>>

\* -------------------------------------------------------------- dispatcher
\* the interceptor chain, then the handler mapped to the path
HandleRequest(c, path, user) ==
    /\ UNCHANGED <<trackerVars, uiVars>>
    /\ IF addInterceptors(path) /\ ~preHandle(c) THEN Rejected(c, path, user)
       ELSE IF path = LoginPath THEN LoginUsingSession(c, user)
       ELSE IF path = UsersPath THEN ListUsers(c)
       ELSE IF path = RegisterPath THEN Register(c, user)
       ELSE OtherHandler(c, path)

ProtectedPaths == {UsersPath, UserByIdPath}
OtherPaths == {IssuesPath, IssueByIdPath}

LoginRequest == \E c \in Clients, user \in LoginBodies : HandleRequest(c, LoginPath, user)
UsersRequest == \E c \in Clients, path \in ProtectedPaths : HandleRequest(c, path, NoUser)
RegisterRequest == \E c \in Clients, user \in RegisterBodies : HandleRequest(c, RegisterPath, user)
OtherRequest == \E c \in Clients, path \in OtherPaths : HandleRequest(c, path, NoUser)

Next ==
    \/ LoginRequest
    \/ UsersRequest
    \/ RegisterRequest
    \/ OtherRequest

Spec == Init /\ [][Next]_<<allVars, uiVars>>

\* ------------------------------------------------ IssueTracker: operations
Range(seq) == {seq[k] : k \in 1..Len(seq)}

\* the list GET /issues returns: the stored issues in id order
RECURSIVE listOf(_)
listOf(ids) ==
    IF ids = {} THEN <<>>
    ELSE LET least == CHOOSE i \in ids : \A j \in ids : i <= j
         IN <<least>> \o listOf(ids \ {least})

\* issues.filter(issue => issue.id !== id)
filterOut(list, id) == SelectSeq(list, LAMBDA x : x # id)

\* the mount effect: .then(response => response.json()).then(setIssues)
fetchIssuesDone ==
    /\ fetchState = "pending"
    /\ fetchState' = "done"
    /\ issues' = listOf(server)
    /\ UNCHANGED <<server, calls, clicks, clicked, vars, uiVars>>

\* the mount effect: .catch(error => console.error(...))
fetchIssuesFailed ==
    /\ fetchState = "pending"
    /\ fetchState' = "failed"
    /\ UNCHANGED <<server, issues, calls, clicks, clicked, vars, uiVars>>

\* a click on the Delete button of a displayed row: handleDelete(id) runs up
\* to its await, holding the issues of the render the button belongs to
handleDelete(id) ==
    /\ clicks < MaxClicks
    /\ id \in Range(issues)
    /\ clicks' = clicks + 1
    /\ clicked' = clicked \cup {id}
    /\ calls' = calls \cup {[n |-> clicks + 1, id |-> id, issues |-> issues,
                              state |-> "sent"]}
    /\ UNCHANGED <<server, issues, fetchState, vars, uiVars>>

\* the backend answers DELETE /issues/{id}: 2xx after removing the issue, or
\* an error status; or the request fails on the network
deleteIssue(call, outcome) ==
    /\ call \in calls
    /\ call.state = "sent"
    /\ server' = IF outcome = "ok" THEN server \ {call.id} ELSE server
    /\ calls' = (calls \ {call}) \cup {[call EXCEPT !.state = outcome]}
    /\ UNCHANGED <<issues, fetchState, clicks, clicked, vars, uiVars>>

\* handleDelete continues after await deleteIssue(id): fetch resolved for any
\* status, so setIssues runs; a network failure rejects and ends the call
handleDeleteResumes(call) ==
    /\ call \in calls
    /\ call.state # "sent"
    /\ calls' = calls \ {call}
    /\ issues' = IF call.state = "failed" THEN issues
                 ELSE filterOut(call.issues, call.id)
    /\ UNCHANGED <<server, fetchState, clicks, clicked, vars, uiVars>>

NextTracker ==
    \/ fetchIssuesDone
    \/ fetchIssuesFailed
    \/ \E id \in IssueIds : handleDelete(id)
    \/ \E call \in calls, outcome \in {"ok", "error", "failed"} : deleteIssue(call, outcome)
    \/ \E call \in calls : handleDeleteResumes(call)

SpecTracker == Init /\ [][NextTracker]_<<allVars, uiVars>>

\* --------------------------------------------------- AddIssue: operations
\* variant: every input written as formData[name] = value, the user input too
AddIssueInputChangePlain(name, value) ==
    /\ addPage = "form"
    /\ addFormData' = [addFormData EXCEPT ![name] =
                           IF name = "user" THEN Str(value) ELSE value]
    /\ addEvent' = [name |-> name, value |-> value]
    /\ UNCHANGED <<addPage, addPending, addSubmits, addLast, notAddVars>>

\* AddIssue.handleInputChange for the event {target: {name, value}}
AddIssueInputChange(name, value) ==
    /\ addPage = "form"
    /\ addFormData' = IF name = "user"
                      THEN [addFormData EXCEPT !.user = Obj(value)]
                      ELSE [addFormData EXCEPT ![name] = value]
    /\ addEvent' = [name |-> name, value |-> value]
    /\ UNCHANGED <<addPage, addPending, addSubmits, addLast, notAddVars>>

\* AddIssue.handleFormSubmit up to the fetch: POST /issues is sent
AddIssueSubmit ==
    /\ addPage = "form"
    /\ addSubmits < MaxSubmits
    /\ addSubmits' = addSubmits + 1
    /\ addPending' = addPending + 1
    /\ UNCHANGED <<addFormData, addPage, addLast, addEvent, notAddVars>>

PostOutcomes == {"ok", "badjson", "error", "failed"}

\* variant: navigate('/') called without the response.ok test
AddIssueSettlesNoOkTest(outcome) ==
    /\ addPending > 0
    /\ addPending' = addPending - 1
    /\ addLast' = outcome
    /\ addPage' = IF outcome \in {"ok", "error"} THEN "list" ELSE addPage
    /\ UNCHANGED <<addFormData, addSubmits, addEvent, notAddVars>>

\* the promise chain of handleFormSubmit when a POST settles: "ok" is a 2xx
\* response with a JSON body, "badjson" a 2xx response whose body does not
\* parse, "error" a non-2xx response, "failed" a network failure
AddIssueSettles(outcome) ==
    /\ addPending > 0
    /\ addPending' = addPending - 1
    /\ addLast' = outcome
    /\ addPage' = IF outcome = "ok" THEN "list" ELSE addPage
    /\ UNCHANGED <<addFormData, addSubmits, addEvent, notAddVars>>

\* the Cancel button: navigate('/')
AddIssueCancel ==
    /\ addPage = "form"
    /\ addPage' = "list"
    /\ UNCHANGED <<addFormData, addPending, addSubmits, addLast, addEvent, notAddVars>>

NextAddIssue ==
    \/ \E name \in FieldNames, value \in TypedValues \cup {""} :
           AddIssueInputChange(name, value)
    \/ AddIssueSubmit
    \/ \E outcome \in PostOutcomes : AddIssueSettles(outcome)
    \/ AddIssueCancel

SpecAddIssue == Init /\ [][NextAddIssue]_<<allVars, uiVars>>

\* ----------------------------------------------- IssueDetails: operations
\* what the component renders (line 53 and the JSX below it): reading
\* issue.user.name of an object without user throws during render
View ==
    IF detIssue.kind = "null" THEN "loading"
    ELSE IF detIssue.kind = "error" THEN "crashed"
    ELSE IF detIsEditing THEN "form" ELSE "issue"

\* the route parameter changes while the component stays mounted: the effect
\* of lines 16-29 runs again and sends a GET for the new id; it has no cleanup
DetailsRouteChange(id) ==
    /\ detRoutes < MaxRoutes
    /\ id # detId
    /\ detId' = id
    /\ detRoutes' = detRoutes + 1
    /\ detFetches' = detFetches \cup {[n |-> detRoutes + 1, id |-> id]}
    /\ UNCHANGED <<detServer, detIssue, detIsEditing, detFormData, detPuts,
                   detSubmits, detInputs, detEvent, detLastPut, detGetFailed,
                   notDetVars>>

GetOutcomes == {"ok", "errorJson", "errorText", "failed"}

\* a GET settles and its promise chain runs: "ok" is a 2xx response with the
\* issue, "errorJson" a non-2xx response with a JSON body, "errorText" a
\* response whose body does not parse, "failed" a network failure
DetailsFetchSettles(f, outcome) ==
    /\ f \in detFetches
    /\ detFetches' = detFetches \ {f}
    /\ detGetFailed' = (detGetFailed \/ outcome # "ok")
    /\ IF outcome = "ok"
       THEN /\ detIssue' = IssueJson(f.id, detServer[f.id])
            /\ detFormData' = detServer[f.id]
       ELSE IF outcome = "errorJson"
       THEN /\ detIssue' = ErrorJson
            /\ detFormData' = FieldsOf(ErrorJson)
       ELSE UNCHANGED <<detIssue, detFormData>>
    /\ UNCHANGED <<detServer, detId, detIsEditing, detPuts, detRoutes,
                   detSubmits, detInputs, detEvent, detLastPut, notDetVars>>

\* the Edit button
DetailsEdit ==
    /\ View = "issue"
    /\ detIsEditing' = TRUE
    /\ UNCHANGED <<detServer, detId, detIssue, detFormData, detFetches, detPuts,
                   detRoutes, detSubmits, detInputs, detEvent, detLastPut,
                   detGetFailed, notDetVars>>

\* the Cancel button of the edit form
DetailsCancel ==
    /\ View = "form"
    /\ detIsEditing' = FALSE
    /\ UNCHANGED <<detServer, detId, detIssue, detFormData, detFetches, detPuts,
                   detRoutes, detSubmits, detInputs, detEvent, detLastPut,
                   detGetFailed, notDetVars>>

\* IssueDetails.handleInputChange: setFormData({...formData, [name]: value})
DetailsInputChange(name, value) ==
    /\ View = "form"
    /\ detInputs < MaxInputs
    /\ detInputs' = detInputs + 1
    /\ detEvent' = [name |-> name, value |-> value]
    /\ detFormData' = [detFormData EXCEPT ![name] =
                           IF name = "user" THEN Str(value) ELSE value]
    /\ UNCHANGED <<detServer, detId, detIssue, detIsEditing, detFetches, detPuts,
                   detRoutes, detSubmits, detLastPut, detGetFailed, notDetVars>>

\* IssueDetails.handleFormSubmit up to the fetch: PUT /issues/{id} is sent
DetailsSubmit ==
    /\ View = "form"
    /\ detSubmits < MaxPuts
    /\ detSubmits' = detSubmits + 1
    /\ detPuts' = detPuts \cup {[n |-> detSubmits + 1, id |-> detId, body |-> detFormData]}
    /\ UNCHANGED <<detServer, detId, detIssue, detIsEditing, detFormData,
                   detFetches, detRoutes, detInputs, detEvent, detLastPut,
                   detGetFailed, notDetVars>>

\* a PUT settles and the promise chain of handleFormSubmit runs; the backend
\* stores the body only when its user is an object
DetailsPutSettles(p, outcome) ==
    /\ p \in detPuts
    /\ outcome = "ok" => p.body.user.type = "object"
    /\ detPuts' = detPuts \ {p}
    /\ detLastPut' = outcome
    /\ detServer' = IF outcome = "ok" THEN [detServer EXCEPT ![p.id] = p.body]
                    ELSE detServer
    /\ IF outcome = "ok"
       THEN detIssue' = IssueJson(p.id, p.body) /\ detIsEditing' = FALSE
       ELSE IF outcome = "errorJson"
       THEN detIssue' = ErrorJson /\ detIsEditing' = FALSE
       ELSE UNCHANGED <<detIssue, detIsEditing>>
    /\ UNCHANGED <<detId, detFormData, detFetches, detRoutes, detSubmits,
                   detInputs, detEvent, detGetFailed, notDetVars>>

NextDetails ==
    \/ \E id \in DetailIds : DetailsRouteChange(id)
    \/ \E f \in detFetches, outcome \in GetOutcomes : DetailsFetchSettles(f, outcome)
    \/ DetailsEdit
    \/ DetailsCancel
    \/ \E name \in FieldNames, value \in TypedValues : DetailsInputChange(name, value)
    \/ DetailsSubmit
    \/ \E p \in detPuts, outcome \in GetOutcomes : DetailsPutSettles(p, outcome)

SpecDetails == Init /\ [][NextDetails]_<<allVars, uiVars>>

\* ---------------------------------------------------- Redux: operations
\* the store notifies the mounted component: it renders with the new status
\* and its effect, whose dependencies hold the status, is scheduled
Rerender(status) == IF rdxMounted THEN status ELSE "none"

\* IssueTracker mounts (route '/'): first render, effect scheduled
Mount ==
    /\ ~rdxMounted
    /\ rdxMounts < MaxMounts
    /\ rdxMounted' = TRUE
    /\ rdxMounts' = rdxMounts + 1
    /\ rdxEffect' = rdxStatus
    /\ UNCHANGED <<rdxStatus, rdxItems, rdxError, rdxInFlight, rdxDispatched,
                   notRdxVars>>

\* IssueTracker unmounts (another route); effects are flushed before
Unmount ==
    /\ rdxMounted
    /\ rdxEffect = "none"
    /\ rdxMounted' = FALSE
    /\ UNCHANGED <<rdxStatus, rdxItems, rdxError, rdxEffect, rdxInFlight,
                   rdxMounts, rdxDispatched, notRdxVars>>

\* variant: the effect dispatches fetchIssues whatever the status
useEffectNoGuard ==
    /\ rdxEffect # "none"
    /\ rdxStatus' = "loading"
    /\ rdxInFlight' = rdxInFlight + 1
    /\ rdxDispatched' = rdxDispatched + 1
    /\ rdxEffect' = IF rdxStatus # "loading" THEN "loading" ELSE "none"
    /\ UNCHANGED <<rdxItems, rdxError, rdxMounted, rdxMounts, notRdxVars>>

\* the effect of IssueTracker: if (status === 'idle') dispatch(fetchIssues());
\* the thunk dispatches fetchIssues.pending at once (status = 'loading')
useEffect ==
    /\ rdxEffect # "none"
    /\ IF rdxEffect = "idle"
       THEN /\ rdxStatus' = "loading"
            /\ rdxInFlight' = rdxInFlight + 1
            /\ rdxDispatched' = rdxDispatched + 1
            /\ rdxEffect' = IF rdxStatus # "loading" THEN "loading" ELSE "none"
       ELSE /\ rdxEffect' = "none"
            /\ UNCHANGED <<rdxStatus, rdxInFlight, rdxDispatched>>
    /\ UNCHANGED <<rdxItems, rdxError, rdxMounted, rdxMounts, notRdxVars>>

\* fetchIssues.fulfilled
fetchIssuesFulfilled ==
    /\ rdxInFlight > 0
    /\ rdxInFlight' = rdxInFlight - 1
    /\ rdxStatus' = "succeeded"
    /\ rdxItems' = Payload
    /\ rdxEffect' = IF rdxStatus # "succeeded" THEN Rerender("succeeded") ELSE rdxEffect
    /\ UNCHANGED <<rdxError, rdxMounted, rdxMounts, rdxDispatched, notRdxVars>>

\* fetchIssues.rejected
fetchIssuesRejected ==
    /\ rdxInFlight > 0
    /\ rdxInFlight' = rdxInFlight - 1
    /\ rdxStatus' = "failed"
    /\ rdxError' = "message"
    /\ rdxEffect' = IF rdxStatus # "failed" THEN Rerender("failed") ELSE rdxEffect
    /\ UNCHANGED <<rdxItems, rdxMounted, rdxMounts, rdxDispatched, notRdxVars>>

\* reducer addIssue: state.items.push(action.payload)
addIssue(payload) ==
    /\ Len(rdxItems) < MaxItems
    /\ rdxItems' = Append(rdxItems, payload)
    /\ UNCHANGED <<rdxStatus, rdxError, rdxMounted, rdxEffect, rdxInFlight,
                   rdxMounts, rdxDispatched, notRdxVars>>

\* reducer removeIssue: state.items.filter(issue => issue.id !== payload)
removeIssue(id) ==
    /\ rdxItems' = SelectSeq(rdxItems, LAMBDA issue : issue.id # id)
    /\ UNCHANGED <<rdxStatus, rdxError, rdxMounted, rdxEffect, rdxInFlight,
                   rdxMounts, rdxDispatched, notRdxVars>>

\* reducer updateIssueStatus: the first item with that id gets the status
updateIssueStatus(id, status) ==
    /\ LET found == {k \in 1..Len(rdxItems) : rdxItems[k].id = id}
       IN  IF found = {} THEN rdxItems' = rdxItems
           ELSE LET k == CHOOSE j \in found : \A l \in found : j <= l
                IN  rdxItems' = [rdxItems EXCEPT ![k].status = status]
    /\ UNCHANGED <<rdxStatus, rdxError, rdxMounted, rdxEffect, rdxInFlight,
                   rdxMounts, rdxDispatched, notRdxVars>>

\* IssueTracker.handleDelete of the Redux version: dispatch(removeIssue(id))
rdxHandleDelete(id) ==
    /\ rdxMounted
    /\ rdxStatus = "succeeded"
    /\ \E k \in 1..Len(rdxItems) : rdxItems[k].id = id
    /\ removeIssue(id)

NextRedux ==
    \/ Mount
    \/ Unmount
    \/ useEffect
    \/ fetchIssuesFulfilled
    \/ fetchIssuesRejected
    \/ \E i \in 1..MaxItems, st \in ItemStatuses : addIssue(Item(i, st))
    \/ \E i \in 1..MaxItems : rdxHandleDelete(i)
    \/ \E i \in 1..MaxItems, st \in ItemStatuses : updateIssueStatus(i, st)

SpecRedux == Init /\ [][NextRedux]_<<allVars, uiVars>>

\* -------------------------------------------- optimistic update: operations
\* handleStatusChange up to the await: snapshot, optimistic setIssues, PUT
handleStatusChange(id, newStatus) ==
    /\ optChanges < MaxChanges
    /\ newStatus # optIssues[id]
    /\ optChanges' = optChanges + 1
    /\ optIssues' = [optIssues EXCEPT ![id] = newStatus]
    /\ optCalls' = optCalls \cup {[n |-> optChanges + 1, id |-> id,
                                   originalIssues |-> optIssues]}
    /\ optAttempts' = [optAttempts EXCEPT ![id] =
                          [count |-> @.count + 1, before |-> optIssues[id],
                           new |-> newStatus, outcome |-> "pending"]]
    /\ UNCHANGED notOptVars

\* updateIssue settles and handleStatusChange resumes: nothing on success,
\* setIssues(originalIssues) in the catch
handleStatusChangeResumes(call, outcome) ==
    /\ call \in optCalls
    /\ optCalls' = optCalls \ {call}
    /\ optIssues' = IF outcome = "ok" THEN optIssues ELSE call.originalIssues
    /\ optAttempts' = [optAttempts EXCEPT ![call.id].outcome =
                          IF @ = "pending" THEN outcome ELSE "mixed"]
    /\ UNCHANGED <<optChanges, notOptVars>>

NextOptimistic ==
    \/ \E id \in OptIds, st \in ItemStatuses : handleStatusChange(id, st)
    \/ \E call \in optCalls, outcome \in {"ok", "error"} :
           handleStatusChangeResumes(call, outcome)

SpecOptimistic == Init /\ [][NextOptimistic]_<<allVars, uiVars>>

\* ------------------------------------------------------------- properties
HasSession(c) == cookie[c] # NoCookie /\ sessions[cookie[c]].created
Authenticated(c) == HasSession(c) /\ sessions[cookie[c]].username # Null
StoredEmails == {u.email : u \in users}
IsLogin(r) == r.path = LoginPath
IsProtected(r) == r.path \in ProtectedPaths
AdmittedByGate(r) == r.handler # "AuthInterceptor"

\* the last request was a login carrying a password, for a stored email,
\* and the password is (eq = TRUE) or is not (eq = FALSE) the stored one
LoginFor(r, eq) ==
    /\ IsLogin(r)
    /\ r.user.password # Null
    /\ \E u \in users : u.email = r.user.email /\ ((u.password = r.user.password) <=> eq)

\* C1: a login whose email is that of a stored user record and whose password
\* is that record's stored password is answered 200 "Login Successful", and
\* the client has a server-side session afterwards.
C1_LoginCorrectCredentials ==
    LoginFor(resp, TRUE) =>
        /\ resp.status = OK
        /\ resp.body = LoginSuccessful
        /\ HasSession(resp.client)

C1_Witness ==
    /\ LoginFor(resp, TRUE)
    /\ resp.status = OK
    /\ HasSession(resp.client)

\* C2: once a client's login has returned 200, each of its later requests to
\* a protected path is admitted by the gate, whatever body the login carried.
C2_ProtectedAfterLogin ==
    (IsProtected(resp) /\ resp.client \in loggedIn) => AdmittedByGate(resp)

\* C3: a request to a protected path from a client that has never completed
\* a successful login is answered 401 and does not get the user list.
C3_ProtectedWithoutLogin ==
    (IsProtected(resp) /\ resp.client \notin loggedIn) =>
        /\ resp.status = UNAUTHORIZED
        /\ resp.body # UserListBody

C3_Witness ==
    /\ IsProtected(resp)
    /\ resp.client \notin loggedIn
    /\ loggedIn # {}
    /\ resp.status = UNAUTHORIZED

\* C4: a login whose email matches no stored user record is answered 401
\* "Invalid credentials" and authenticates no session.
C4_LoginUnknownEmail ==
    (IsLogin(resp) /\ resp.user.email \in Emails \ StoredEmails) =>
        /\ resp.status = UNAUTHORIZED
        /\ resp.body = InvalidCredentials
        /\ ~Authenticated(resp.client)

\* C5: a login whose email is that of a stored user record and whose
\* password differs from the stored one is answered 401 "Invalid
\* credentials", and the request leaves the session store as it was.
C5_LoginWrongPassword ==
    [][LoginFor(resp', FALSE) =>
          /\ resp'.status = UNAUTHORIZED
          /\ resp'.body = InvalidCredentials
          /\ sessions' = sessions
          /\ cookie' = cookie]_vars

C5_Witness ==
    /\ LoginFor(resp, FALSE)
    /\ resp.status = UNAUTHORIZED
    /\ resp.user.name # Null
    /\ ~Authenticated(resp.client)

\* C6: the gate admits a request to a protected path if and only if the
\* request has a session and that session's username attribute is non-null.
C6_GateIffAuthenticated ==
    [][IsProtected(resp') =>
          (AdmittedByGate(resp') <=>
              /\ cookie[resp'.client] # NoCookie
              /\ sessions[cookie[resp'.client]].created
              /\ sessions[cookie[resp'.client]].username # Null)]_vars

\* a session that exists without a username attribute was turned away
C6_Witness ==
    /\ IsProtected(resp)
    /\ ~AdmittedByGate(resp)
    /\ HasSession(resp.client)
    /\ ~Authenticated(resp.client)

\* C7: a request to /session/login is never intercepted: it reaches the
\* login handler in every session state of the client.
C7_LoginNeverGated ==
    IsLogin(resp) => resp.handler = "LoginUsingSession"

\* a failed login of a client whose session is authenticated
C7_Witness ==
    /\ IsLogin(resp)
    /\ resp.handler = "LoginUsingSession"
    /\ resp.status = UNAUTHORIZED
    /\ Authenticated(resp.client)

\* C8: a session becomes authenticated only in a step that is a login of
\* that client answered 200.
C8_AuthenticatedOnlyByLogin ==
    [][\A c \in Clients :
          (~Authenticated(c) /\ Authenticated(c)') =>
              /\ resp'.client = c
              /\ IsLogin(resp')
              /\ resp'.status = OK]_vars

C8_Witness ==
    /\ IsLogin(resp)
    /\ resp.status = OK
    /\ Authenticated(resp.client)
    /\ \E c \in Clients : c # resp.client /\ ~Authenticated(c)

\* C9: an authenticated session stays authenticated under every further
\* request.
C9_AuthenticatedStays ==
    [][\A c \in Clients : Authenticated(c) => Authenticated(c)']_vars

\* C10: after a login answered 200 the session's username attribute is the
\* name of the stored user record that was matched.
C10_UsernameIsStoredName ==
    (IsLogin(resp) /\ resp.status = OK) =>
        \E u \in users :
            /\ u.email = resp.user.email
            /\ sessions[cookie[resp.client]].username = u.name

\* a login for an email address under which no user record is stored
LoginUnknownEmail(r) == IsLogin(r) /\ r.user.email \in Emails \ StoredEmails

\* C11: the response to a login for an unknown email has the status and the
\* body of the response to a login for a known email with a wrong password.
\* Stated on two consecutive logins against the same user records.
C11_SameFailureResponse ==
    [][(LoginUnknownEmail(resp) /\ users' = users /\ LoginFor(resp', FALSE)) =>
          /\ resp'.status = resp.status
          /\ resp'.body = resp.body]_vars

\* C12: every login request, whatever its body, is answered 200 "Login
\* Successful" or 401 "Invalid credentials".
C12_LoginOnlyTwoOutcomes ==
    IsLogin(resp) =>
        \/ resp.status = OK /\ resp.body = LoginSuccessful
        \/ resp.status = UNAUTHORIZED /\ resp.body = InvalidCredentials

\* C13: a request the gate rejects gets status 401 and the one fixed message,
\* whether it had no session or a session without username, and no handler
\* runs for it: nothing but the response changes.
C13_GateRejection ==
    [][(IsProtected(resp') /\ ~Authenticated(resp'.client)) =>
          /\ resp'.handler = "AuthInterceptor"
          /\ resp'.status = UNAUTHORIZED
          /\ resp'.body = InterceptorText
          /\ UNCHANGED <<users, sessions, cookie, loggedIn>>]_vars

\* both rejection cases were seen: this one had a session without username
C13_Witness ==
    /\ resp.handler = "AuthInterceptor"
    /\ resp.body = InterceptorText
    /\ HasSession(resp.client)
    /\ \E c \in Clients : ~HasSession(c)

\* C14: a login answered 401 leaves the session store as it was: no session
\* is created and the username attribute of an existing session is kept.
C14_FailedLoginFrame ==
    [][(IsLogin(resp') /\ resp'.status = UNAUTHORIZED) =>
          /\ sessions' = sessions
          /\ cookie' = cookie]_vars

\* a failed login on an authenticated session, which is still authenticated
C14_Witness ==
    /\ IsLogin(resp)
    /\ resp.status = UNAUTHORIZED
    /\ resp.body = InvalidCredentials
    /\ Authenticated(resp.client)
    /\ resp.user.name # sessions[cookie[resp.client]].username

\* C15: the gate neither creates a session nor changes a session attribute:
\* a request to a protected path, admitted or rejected, leaves the session
\* store and the cookies as they were.
C15_GateFrame ==
    [][IsProtected(resp') =>
          /\ sessions' = sessions
          /\ cookie' = cookie]_vars

\* a client without session was rejected and still has no session
C15_Witness ==
    /\ IsProtected(resp)
    /\ ~AdmittedByGate(resp)
    /\ ~HasSession(resp.client)
    /\ cookie[resp.client] = NoCookie

\* C16: a login of one client changes no other client's session: it does not
\* make the gate admit a request of a client it did not admit before.
C16_SessionsIndependent ==
    [][IsLogin(resp') =>
          \A c \in Clients \ {resp'.client} :
              /\ cookie'[c] = cookie[c]
              /\ Authenticated(c)' => Authenticated(c)]_vars

\* one client logged in with a name; another still holds a session without
\* username
C16_Witness ==
    /\ IsLogin(resp)
    /\ resp.status = OK
    /\ Authenticated(resp.client)
    /\ \E c \in Clients \ {resp.client} : HasSession(c) /\ ~Authenticated(c)

\* C17: with the gate registered on /users, ListUsers runs only for requests
\* whose session holds a username: its own 401 branch is never taken and it
\* returns the user list.
C17_HandlerAgreesWithGate ==
    resp.handler = "ListUsers" =>
        /\ resp.status = OK
        /\ resp.body = UserListBody

C17_Witness ==
    /\ resp.path = UsersPath
    /\ resp.handler = "ListUsers"
    /\ resp.status = OK
    /\ Authenticated(resp.client)

\* C18: a request to a path outside /users and /users/** is never rejected
\* by the gate, in any session state.
C18_OtherPathsNotGated ==
    (resp.path \notin ProtectedPaths) => AdmittedByGate(resp)

\* an issue endpoint answered for a client that has no session
C18_Witness ==
    /\ resp.path \in OtherPaths
    /\ resp.handler = "other"
    /\ ~HasSession(resp.client)

\* the stored record a login names has no password
LoginForPasswordless(r) ==
    /\ IsLogin(r)
    /\ \E u \in users : u.email = r.user.email /\ u.password = Null

\* C19: a login for a stored user record that has no password is never
\* answered 200, whatever password the request supplies.
C19_NoLoginWithoutStoredPassword ==
    LoginForPasswordless(resp) => resp.status # OK

C19_Witness ==
    /\ LoginForPasswordless(resp)
    /\ resp.user.password # Null
    /\ resp.status = UNAUTHORIZED

\* every handleDelete call has returned
TrackerQuiet == fetchState = "done" /\ calls = {}

\* C20: once all requests have completed, the displayed list holds none of
\* the deleted issues (those the backend removed) and still holds every issue
\* whose Delete button was never clicked.
C20_DeletedGoneOthersKept ==
    TrackerQuiet =>
        /\ \A i \in IssueIds \ server : i \notin Range(issues)
        /\ \A i \in IssueIds \ clicked : i \in Range(issues)

\* C21: an issue leaves the displayed list only when its DELETE request
\* succeeded: every id a step removes from the list has been removed by the
\* backend; a request that failed leaves the list as it was.
C21_RemovedOnlyWhenDeleted ==
    [][\A i \in Range(issues) \ Range(issues') : i \notin server']_allVars

UserId(form) == IF form.user.type = "object" THEN form.user.val ELSE Undefined

\* C27: an input change writes exactly the field the input names: 'user'
\* sets user.id and keeps title, description and status; any other name sets
\* that field and keeps the rest, user included; user stays an object with id.
C27_InputChangesOneField ==
    [][(addEvent' # addEvent) =>
          /\ addFormData'.user.type = "object"
          /\ IF addEvent'.name = "user"
             THEN /\ UserId(addFormData') = addEvent'.value
                  /\ \A f \in FieldNames \ {"user"} : addFormData'[f] = addFormData[f]
             ELSE /\ addFormData'[addEvent'.name] = addEvent'.value
                  /\ \A f \in FieldNames \ {addEvent'.name} :
                        addFormData'[f] = addFormData[f]]_addVars

\* the user input was changed after the other fields had been filled in
C27_Witness ==
    /\ addEvent = [name |-> "user", value |-> "b"]
    /\ addFormData.user = Obj("b")
    /\ addFormData.title = "a"
    /\ addFormData.status = "b"

\* C23: a save whose PUT fails leaves the displayed issue as it was and
\* keeps the component in edit mode.
C23_FailedSaveKeepsIssue ==
    [][(detPuts' # detPuts /\ detSubmits' = detSubmits /\ detLastPut' # "ok") =>
          detIssue' = detIssue /\ detIsEditing' = detIsEditing]_detVars

\* C24: once no fetch of the mounted component is in flight, it no longer
\* shows 'Loading...': it shows the issue or an error.
C24_LoadingEnds ==
    detFetches = {} => View \in {"issue", "form", "error"}

\* C25: when the route id changed while a fetch was in flight and every
\* fetch has ended in a 2xx response, the issue shown and the form data are
\* those of the current route id (no save and no typing in between).
C25_ShowsCurrentId ==
    (detFetches = {} /\ ~detGetFailed /\ detSubmits = 0 /\ detInputs = 0) =>
        /\ detIssue = IssueJson(detId, detServer[detId])
        /\ detFormData = detServer[detId]

UserName(form) == IF form.user.type = "object" THEN form.user.val ELSE Undefined

\* C26: in edit mode, after an input change formData.user is still an object
\* with a name, and after a change of the User input that name, which the
\* input shows, is the value typed.
C26_UserStaysObject ==
    [][(detInputs' # detInputs) =>
          /\ detFormData'.user.type = "object"
          /\ detEvent'.name = "user" => UserName(detFormData') = detEvent'.value]_detVars

\* C28: the slice's status moves only idle -> loading -> succeeded or failed;
\* fetchIssues is dispatched only while the status is idle; once a fetch has
\* settled the status stays and no further fetch is dispatched.
C28_StatusOnlyForward ==
    [][/\ rdxStatus' # rdxStatus =>
             <<rdxStatus, rdxStatus'>> \in {<<"idle", "loading">>,
                                            <<"loading", "succeeded">>,
                                            <<"loading", "failed">>}
       /\ rdxDispatched' # rdxDispatched => rdxStatus = "idle"
       /\ rdxStatus \in {"succeeded", "failed"} =>
             rdxStatus' = rdxStatus /\ rdxDispatched' = rdxDispatched]_rdxVars

\* the fetch has settled and the component has mounted again since, its
\* effect has run
C28_Witness ==
    /\ rdxStatus \in {"succeeded", "failed"}
    /\ rdxDispatched = 1
    /\ rdxMounts = 2
    /\ rdxMounted
    /\ rdxEffect = "none"

\* C29: when every request has settled, an issue changed once shows its new
\* status if its update succeeded and the status it had before if it failed.
C29_SettledStatuses ==
    optCalls = {} =>
        \A i \in OptIds :
            optAttempts[i].count = 1 =>
                optIssues[i] = IF optAttempts[i].outcome = "ok"
                               THEN optAttempts[i].new ELSE optAttempts[i].before

====
